---------------------------- MODULE Spec2Model ----------------------------
(***************************************************************************)
(* Model of the AWS X-Ray auto-instrumentation layer: the sitecustomize    *)
(* module (logger configuration, setup(), instrument(), the import hook)   *)
(* inside one Lambda sandbox process, the host's exec-wrapper launch that  *)
(* precedes it, and the sequence of sandbox processes of one deployment.   *)
(*                                                                         *)
(* A deployment fixes which packages are importable (botocore and its      *)
(* version, packaging, aws_xray_sdk).  A process is launched by the host,  *)
(* starts the interpreter, imports sitecustomize (module body, setup(),    *)
(* instrument()), then runs user code, which may re-trigger the import     *)
(* (reload) or exit.  Version strings are sequences of one-character       *)
(* strings, so that parsing and string ordering are computed, not assumed. *)
(***************************************************************************)
EXTENDS Integers, Sequences, FiniteSets, TLC

VARIABLES
    botocoreVersion,   \* botocore.__version__ of the deployment, or NoModule
    packagingPresent,  \* whether "from packaging import version" can succeed
    sdkPresent,        \* whether aws_xray_sdk can be imported
    procs,             \* number of sandbox processes started so far
    pc,                \* position of the current process
    wrapperPath,       \* AWS_LAMBDA_EXEC_WRAPPER target: "valid" or "missing"
    envLevel,          \* AWS_LAMBDA_AWS_XRAY_LOGGING_LEVEL of the process
    exitCode,          \* exit code of the process, NoExit while it runs
    level,             \* logger level
    handlers,          \* number of handlers attached to the logger
    stdout,            \* records written to stdout, in order
    hookPos,           \* index in ImportHook of the next call of the import
    imports,           \* times the module body has run in this process
    setupCalls,        \* calls of setup() in this process
    instrumentCalls,   \* calls of instrument() in this process
    patchCalls,        \* calls of patch_all() in this process
    wraps,             \* times the SDK's wrappers are applied to the libraries
    raised,            \* exception that left the import hook, or "none"
    last,              \* outcome of the most recent instrument() call
    runs               \* outcomes of all instrument() calls of the deployment

vars == <<botocoreVersion, packagingPresent, sdkPresent, procs, pc, wrapperPath,
          envLevel, exitCode, level, handlers, stdout, hookPos, imports,
          setupCalls, instrumentCalls, patchCalls, wraps, raised, last, runs>>

-----------------------------------------------------------------------------
(* Bounds of the model *)

MaxProcs == 2
MaxImports == 2
MaxMajor == 2
MaxMinor == 12
MaxMicro == 4

-----------------------------------------------------------------------------
(* Logging levels of the logging library, as sitecustomize uses them *)

DEBUG == 10
INFO == 20
WARNING == 30

NoModule == <<>>
NoExit == 0 - 1

(* Exit status of a launch whose exec-wrapper path does not exist *)
CommandNotFound == 127

-----------------------------------------------------------------------------
(* Version strings and packaging.version *)

Digits == <<"0", "1", "2", "3", "4", "5", "6", "7", "8", "9">>

DigitVal(c) == (CHOOSE i \in 1..10 : Digits[i] = c) - 1

(* Code point of a character of a version string: "." = 46, "0" = 48 *)
Ord(c) == IF c = "." THEN 46 ELSE 48 + DigitVal(c)

RECURSIVE StrOfNat(_)
(* str(n) for a natural number *)
StrOfNat(n) == IF n < 10 THEN <<Digits[n + 1]>>
               ELSE StrOfNat(n \div 10) \o <<Digits[(n % 10) + 1]>>

RECURSIVE JoinDots(_)
(* ".".join(str(n) for n in parts) *)
JoinDots(parts) ==
    IF Len(parts) = 0 THEN <<>>
    ELSE IF Len(parts) = 1 THEN StrOfNat(parts[1])
    ELSE StrOfNat(parts[1]) \o <<".">> \o JoinDots(Tail(parts))

RECURSIVE IntOfStr(_, _)
(* int(s), accumulating from the left *)
IntOfStr(s, acc) ==
    IF Len(s) = 0 THEN acc
    ELSE IntOfStr(Tail(s), 10 * acc + DigitVal(Head(s)))

RECURSIVE SplitDots(_, _)
(* s.split("."), cur being the segment under construction *)
SplitDots(s, cur) ==
    IF Len(s) = 0 THEN <<cur>>
    ELSE IF Head(s) = "." THEN <<cur>> \o SplitDots(Tail(s), <<>>)
    ELSE SplitDots(Tail(s), Append(cur, Head(s)))

(* version.parse(s).release for a dotted numeric version string *)
VersionParse(s) ==
    LET segs == SplitDots(s, <<>>)
    IN  [i \in 1..Len(segs) |-> IntOfStr(segs[i], 0)]

RECURSIVE StripZeros(_)
(* the release with its trailing zeros dropped, as the comparison key does *)
StripZeros(r) ==
    IF Len(r) > 0 /\ r[Len(r)] = 0 THEN StripZeros(SubSeq(r, 1, Len(r) - 1))
    ELSE r

RECURSIVE TupleLess(_, _)
(* a < b for tuples of integers *)
TupleLess(a, b) ==
    IF Len(b) = 0 THEN FALSE
    ELSE IF Len(a) = 0 THEN TRUE
    ELSE IF a[1] # b[1] THEN a[1] < b[1]
    ELSE TupleLess(Tail(a), Tail(b))

(* Version.__lt__ on two parsed releases *)
VersionLess(a, b) == TupleLess(StripZeros(a), StripZeros(b))

RECURSIVE StrLess(_, _)
(* a < b for str, by code point *)
StrLess(a, b) ==
    IF Len(b) = 0 THEN FALSE
    ELSE IF Len(a) = 0 THEN TRUE
    ELSE IF Head(a) # Head(b) THEN Ord(Head(a)) < Ord(Head(b))
    ELSE StrLess(Tail(a), Tail(b))

(* The literal "1.11.3" of instrument() *)
RequiredVersion == <<"1", ".", "1", "1", ".", "3">>

(* botocore.__version__ < "1.11.3" compared as strings *)
BelowFloorLexical(v) == StrLess(v, RequiredVersion)

(* version.parse(botocore.__version__) < version.parse("1.11.3") *)
BelowFloor(v) == VersionLess(VersionParse(v), VersionParse(RequiredVersion))

-----------------------------------------------------------------------------
(* Inputs *)

(* botocore versions a deployment may carry *)
SampleVersions ==
    { JoinDots(<<1, 9, 0>>), JoinDots(<<1, 10, 0>>), JoinDots(<<1, 11, 2>>),
      JoinDots(<<1, 11, 3>>), JoinDots(<<1, 12, 0>>) }

(* Releases of one to three components within the bounds, for the version gate *)
GateReleases ==
    { <<a>> : a \in 0..MaxMajor }
    \cup { <<a, b>> : a \in 0..MaxMajor, b \in 0..MaxMinor }
    \cup { <<a, b, c>> : a \in 0..MaxMajor, b \in 0..MaxMinor, c \in 0..MaxMicro }

GateVersions == { JoinDots(r) : r \in GateReleases }

(* Values of AWS_LAMBDA_AWS_XRAY_LOGGING_LEVEL; "unset" is its absence *)
EnvLevels == {"unset", "DEBUG", "INFO", "debug"}

WrapperPaths == {"valid", "missing"}

-----------------------------------------------------------------------------
(* Log records *)

Record(lvl, msg, installed, required) ==
    [lvl |-> lvl, msg |-> msg, installed |-> installed, required |-> required]

Dbg(msg) == Record(DEBUG, msg, <<>>, <<>>)

Warn(msg) == Record(WARNING, msg, <<>>, <<>>)

(* f"botocore version {botocore.__version__} is less than required 1.11.3. ..." *)
VersionWarning(v) ==
    Record(WARNING, "botocore version is less than required", v, RequiredVersion)

RECURSIVE Repeat(_, _)
Repeat(x, n) == IF n = 0 THEN <<>> ELSE <<x>> \o Repeat(x, n - 1)

RECURSIVE Emit(_, _, _, _)
(* logger.debug / logger.warning for each record of recs in turn: a record  *)
(* at or above the logger's level is written once by every handler          *)
Emit(out, recs, lvl, hs) ==
    IF Len(recs) = 0 THEN out
    ELSE Emit(IF Head(recs).lvl >= lvl THEN out \o Repeat(Head(recs), hs) ELSE out,
              Tail(recs), lvl, hs)

(* The warning among the records of one call, "none" when there is none *)
WarningOf(recs) ==
    IF \E i \in 1..Len(recs) : recs[i].lvl = WARNING
    THEN recs[CHOOSE i \in 1..Len(recs) : recs[i].lvl = WARNING]
    ELSE Record(WARNING, "none", <<>>, <<>>)

-----------------------------------------------------------------------------
(* The tracing SDK, by its interface contract *)

(* patch_all(double_patch): the first request applies the wrappers; a later *)
(* request is a no-op when re-patching is allowed and is refused otherwise  *)
patch_all(dp, w) ==
    IF w = 0 THEN [wraps |-> 1, error |-> "none"]
    ELSE IF dp THEN [wraps |-> w, error |-> "none"]
    ELSE [wraps |-> w, error |-> "AlreadyPatched"]

-----------------------------------------------------------------------------
(* sitecustomize: setup() and instrument() *)

(* os.environ.get(name, default) *)
EnvGet(value, default) == IF value = "unset" THEN default ELSE value

SetupLevelAnyCase(env, lvl) ==
    IF EnvGet(env, "INFO") \in {"DEBUG", "debug"} THEN DEBUG ELSE lvl

(* setup(): the logger's level after the call, lvl being the level before *)
SetupLevel(env, lvl) == IF EnvGet(env, "INFO") = "DEBUG" THEN DEBUG ELSE lvl

Outcome(recs, patch, w, exc) ==
    [recs |-> recs, patch |-> patch, wraps |-> w, raised |-> exc]

NoRepatch == FALSE

(* The double_patch argument instrument() passes to patch_all *)
DoublePatch == TRUE

PatchStageNoCall(recs, w) ==
    IF ~sdkPresent
    THEN Outcome(Append(recs, Warn("aws_xray_sdk package is not available")),
                 FALSE, w, "none")
    ELSE Outcome(Append(recs, Dbg("patching all")), FALSE, w, "none")

(* try: from aws_xray_sdk.core import patch_all; patch_all(double_patch=True) *)
(* except ImportError: warning                                                *)
PatchStage(recs, w) ==
    IF ~sdkPresent
    THEN Outcome(Append(recs, Warn("aws_xray_sdk package is not available")),
                 FALSE, w, "none")
    ELSE LET r1 == Append(recs, Dbg("patching all"))
             p == patch_all(DoublePatch, w)
         IN  IF p.error = "none"
             THEN Outcome(Append(r1, Dbg("AWS X-Ray instrumentation successfully applied")),
                          TRUE, p.wraps, "none")
             ELSE IF p.error = "ImportError"
             THEN Outcome(Append(r1, Warn("aws_xray_sdk package is not available")),
                          TRUE, p.wraps, "none")
             ELSE Outcome(r1, TRUE, p.wraps, p.error)

(* from packaging import version; the comparison against 1.11.3 *)
VersionStage(recs, w) ==
    IF ~packagingPresent
    THEN Outcome(recs, FALSE, w, "ImportError")
    ELSE IF BelowFloor(botocoreVersion)
    THEN Outcome(Append(recs, VersionWarning(botocoreVersion)), FALSE, w, "none")
    ELSE PatchStage(Append(recs, Dbg("botocore version is >= 1.11.3")), w)

BotocoreStageUncaught(recs, w) ==
    IF botocoreVersion = NoModule
    THEN Outcome(recs, FALSE, w, "ImportError")
    ELSE VersionStage(Append(recs, Dbg("botocore package is available")), w)

(* try: import botocore  except ImportError: warning, return *)
BotocoreStage(recs, w) ==
    IF botocoreVersion = NoModule
    THEN Outcome(Append(recs, Warn("botocore package is not available")),
                 FALSE, w, "none")
    ELSE VersionStage(Append(recs, Dbg("botocore package is available")), w)

(* instrument(): the records it logs, whether it called patch_all, the       *)
(* patched state it leaves and the exception it raises, w being the patched  *)
(* state before the call                                                     *)
InstrumentOutcome(w) == BotocoreStage(<<Dbg("Instrumenting AWS X-Ray")>>, w)

SwappedHook == <<"instrument", "setup">>

(* The calls at the end of the module body, in order *)
ImportHook == <<"setup", "instrument">>

NoCall == [warning |-> Record(WARNING, "none", <<>>, <<>>), patch |-> FALSE,
           raised |-> "none"]

-----------------------------------------------------------------------------
(* The host platform *)

ExitZero(path) == IF path = "missing" THEN 0 ELSE NoExit

(* Exit code of the launch itself: 127 when the exec wrapper does not exist *)
LaunchExit(path) == IF path = "missing" THEN CommandNotFound ELSE NoExit

-----------------------------------------------------------------------------
(* State *)

processVars == <<pc, wrapperPath, envLevel, exitCode, level, handlers, stdout,
                 hookPos, imports, setupCalls, instrumentCalls, patchCalls,
                 wraps, raised, last>>

deployment == <<botocoreVersion, packagingPresent, sdkPresent>>

(* A sandbox the host has created and not yet launched *)
FreshProcess(path, env) ==
    /\ pc' = "created"
    /\ wrapperPath' = path
    /\ envLevel' = env
    /\ exitCode' = NoExit
    /\ level' = INFO
    /\ handlers' = 0
    /\ stdout' = <<>>
    /\ hookPos' = 0
    /\ imports' = 0
    /\ setupCalls' = 0
    /\ instrumentCalls' = 0
    /\ patchCalls' = 0
    /\ wraps' = 0
    /\ raised' = "none"
    /\ last' = NoCall

InitProcess ==
    /\ procs = 1
    /\ pc = "created"
    /\ wrapperPath \in WrapperPaths
    /\ envLevel \in EnvLevels
    /\ exitCode = NoExit
    /\ level = INFO
    /\ handlers = 0
    /\ stdout = <<>>
    /\ hookPos = 0
    /\ imports = 0
    /\ setupCalls = 0
    /\ instrumentCalls = 0
    /\ patchCalls = 0
    /\ wraps = 0
    /\ raised = "none"
    /\ last = NoCall
    /\ runs = {}

Init ==
    /\ botocoreVersion \in SampleVersions \cup {NoModule}
    /\ packagingPresent \in BOOLEAN
    /\ sdkPresent \in BOOLEAN
    /\ InitProcess

(* The version gate on its own: every version within the bounds, packaging *)
(* importable, one import per process                                      *)
InitGate ==
    /\ botocoreVersion \in GateVersions
    /\ packagingPresent = TRUE
    /\ sdkPresent \in BOOLEAN
    /\ InitProcess
    /\ wrapperPath = "valid"
    /\ envLevel \in {"unset", "DEBUG"}

-----------------------------------------------------------------------------
(* Actions *)

(* The host starts the sandbox: it runs the exec wrapper, which starts the *)
(* interpreter, or fails with 127 when the wrapper does not exist          *)
HostLaunch ==
    /\ pc = "created"
    /\ exitCode' = LaunchExit(wrapperPath)
    /\ pc' = IF LaunchExit(wrapperPath) = NoExit THEN "import" ELSE "exited"
    /\ UNCHANGED <<deployment, procs, wrapperPath, envLevel, level, handlers,
                   stdout, hookPos, imports, setupCalls, instrumentCalls,
                   patchCalls, wraps, raised, last, runs>>

(* The module body up to the hook: getLogger, addHandler, setLevel(INFO) *)
ModuleBody ==
    /\ pc = "import"
    /\ pc' = "hook"
    /\ handlers' = handlers + 1
    /\ level' = INFO
    /\ hookPos' = 1
    /\ imports' = imports + 1
    /\ raised' = "none"
    /\ UNCHANGED <<deployment, procs, wrapperPath, envLevel, exitCode, stdout,
                   setupCalls, instrumentCalls, patchCalls, wraps, last, runs>>

(* setup() *)
setup ==
    /\ pc = "hook"
    /\ raised = "none"
    /\ hookPos <= Len(ImportHook)
    /\ ImportHook[hookPos] = "setup"
    /\ level' = SetupLevel(envLevel, level)
    /\ setupCalls' = setupCalls + 1
    /\ hookPos' = hookPos + 1
    /\ UNCHANGED <<deployment, procs, pc, wrapperPath, envLevel, exitCode,
                   handlers, stdout, imports, instrumentCalls, patchCalls, wraps,
                   raised, last, runs>>

(* instrument() *)
instrument ==
    /\ pc = "hook"
    /\ raised = "none"
    /\ hookPos <= Len(ImportHook)
    /\ ImportHook[hookPos] = "instrument"
    /\ LET o == InstrumentOutcome(wraps)
           res == [warning |-> WarningOf(o.recs), patch |-> o.patch,
                   raised |-> o.raised]
       IN  /\ stdout' = Emit(stdout, o.recs, level, handlers)
           /\ wraps' = o.wraps
           /\ patchCalls' = patchCalls + (IF o.patch THEN 1 ELSE 0)
           /\ raised' = o.raised
           /\ last' = res
           /\ runs' = runs \cup {[verbosity |-> envLevel, warning |-> res.warning,
                                  patch |-> res.patch, raised |-> res.raised]}
    /\ instrumentCalls' = instrumentCalls + 1
    /\ hookPos' = hookPos + 1
    /\ UNCHANGED <<deployment, procs, pc, wrapperPath, envLevel, exitCode, level,
                   handlers, imports, setupCalls>>

(* The import ends, normally or by the exception that left it; the *)
(* interpreter goes on to the user's code                          *)
HookReturn ==
    /\ pc = "hook"
    /\ hookPos > Len(ImportHook) \/ raised # "none"
    /\ pc' = "user"
    /\ UNCHANGED <<deployment, procs, wrapperPath, envLevel, exitCode, level,
                   handlers, stdout, hookPos, imports, setupCalls,
                   instrumentCalls, patchCalls, wraps, raised, last, runs>>

(* The startup-hook path is triggered again in the same process *)
Reimport ==
    /\ pc = "user"
    /\ imports < MaxImports
    /\ pc' = "import"
    /\ UNCHANGED <<deployment, procs, wrapperPath, envLevel, exitCode, level,
                   handlers, stdout, hookPos, imports, setupCalls,
                   instrumentCalls, patchCalls, wraps, raised, last, runs>>

(* The entry point ends; its exit code is the process's *)
Exit ==
    /\ pc = "user"
    /\ \E code \in {0, 1} : exitCode' = code
    /\ pc' = "exited"
    /\ UNCHANGED <<deployment, procs, wrapperPath, envLevel, level, handlers,
                   stdout, hookPos, imports, setupCalls, instrumentCalls,
                   patchCalls, wraps, raised, last, runs>>

(* The host starts another sandbox of the same deployment *)
NewProcess ==
    /\ pc = "exited"
    /\ procs < MaxProcs
    /\ procs' = procs + 1
    /\ \E path \in WrapperPaths, env \in EnvLevels : FreshProcess(path, env)
    /\ UNCHANGED <<deployment, runs>>

Next ==
    \/ HostLaunch
    \/ ModuleBody
    \/ setup
    \/ instrument
    \/ HookReturn
    \/ Reimport
    \/ Exit
    \/ NewProcess

Spec == Init /\ [][Next]_vars

NextGate ==
    \/ HostLaunch
    \/ ModuleBody
    \/ setup
    \/ instrument
    \/ HookReturn

SpecGate == InitGate /\ [][NextGate]_vars

-----------------------------------------------------------------------------
(* Reference notions used by the properties *)

(* The release a version string of the bounded set was written from *)
ReleaseOf(v) == CHOOSE r \in GateReleases : JoinDots(r) = v

Component(r, i) == IF Len(r) >= i THEN r[i] ELSE 0

(* r < 1.11.3, component by component, as numbers *)
NumericBelowFloor(r) ==
    \/ Component(r, 1) < 1
    \/ Component(r, 1) = 1 /\ Component(r, 2) < 11
    \/ Component(r, 1) = 1 /\ Component(r, 2) = 11 /\ Component(r, 3) < 3

BotocorePresent == botocoreVersion # NoModule

BotocoreOld == BotocorePresent /\ NumericBelowFloor(ReleaseOf(botocoreVersion))

BotocoreCompatible == BotocorePresent /\ ~NumericBelowFloor(ReleaseOf(botocoreVersion))

Called == instrumentCalls > 0

VersionMsg == "botocore version is less than required"

-----------------------------------------------------------------------------
(* Properties *)

(* C1: in every dependency state the activation run at import completes   *)
(* without raising: no exception leaves the import hook.                  *)
C1_ActivationNeverRaises == raised = "none"

(* C2: when botocore is present with a version strictly below 1.11.3, a   *)
(* call of instrument() logs a warning naming the installed version and   *)
(* 1.11.3, returns normally and does not call patch_all.                  *)
C2_OldBotocoreWarnsAndSkips ==
    (Called /\ BotocoreOld) =>
        /\ last.warning = VersionWarning(botocoreVersion)
        /\ last.warning.installed = botocoreVersion
        /\ last.warning.required = JoinDots(<<1, 11, 3>>)
        /\ last.raised = "none"
        /\ ~last.patch
        /\ patchCalls = 0

(* C3: the version gate decides by numeric component-wise order: after a  *)
(* call of instrument() the version was rejected (version warning, no     *)
(* patch) exactly when its release is numerically below 1.11.3, and       *)
(* otherwise the call went on to the patch step; 1.9.0 is rejected,       *)
(* 1.11.3 and 1.12.0 are accepted.                                        *)
C3_GateIsSemantic ==
    Called =>
        /\ NumericBelowFloor(ReleaseOf(botocoreVersion))
             <=> (last.warning = VersionWarning(botocoreVersion) /\ ~last.patch)
        /\ ~NumericBelowFloor(ReleaseOf(botocoreVersion))
             <=> (last.warning.msg # VersionMsg /\ last.patch = sdkPresent)
        /\ BelowFloor(JoinDots(<<1, 9, 0>>))
        /\ ~BelowFloor(JoinDots(<<1, 11, 3>>))
        /\ ~BelowFloor(JoinDots(<<1, 12, 0>>))

C3_Witness ==
    /\ Called
    /\ botocoreVersion = JoinDots(<<1, 9, 0>>)
    /\ last.warning = VersionWarning(JoinDots(<<1, 9, 0>>))

(* C4: when botocore cannot be imported, a call of instrument() logs the  *)
(* botocore warning and returns without raising; it makes no version      *)
(* check (nothing about the version is logged, and the import of          *)
(* packaging is never attempted, so its absence raises nothing) and does  *)
(* not call patch_all.                                                    *)
C4_AbsentBotocoreWarnsAndReturns ==
    (Called /\ ~BotocorePresent) =>
        /\ last.warning = Warn("botocore package is not available")
        /\ last.raised = "none"
        /\ raised = "none"
        /\ ~last.patch
        /\ patchCalls = 0
        /\ wraps = 0
        /\ \A i \in 1..Len(stdout) :
              stdout[i].msg \notin {VersionMsg, "botocore version is >= 1.11.3"}

C4_Witness ==
    /\ Called
    /\ ~BotocorePresent
    /\ ~packagingPresent
    /\ pc = "user"
    /\ last.warning = Warn("botocore package is not available")

(* C5: when botocore is present and compatible and aws_xray_sdk cannot be *)
(* imported, a call of instrument() logs the SDK warning, returns without *)
(* raising and leaves the process unpatched.                              *)
C5_AbsentSdkWarnsAndReturns ==
    (Called /\ BotocoreCompatible /\ ~sdkPresent) =>
        /\ last.warning = Warn("aws_xray_sdk package is not available")
        /\ last.raised = "none"
        /\ wraps = 0

(* C6: a call of instrument() in which both checks pass (botocore is      *)
(* imported, the version comparison is made and finds the version at or   *)
(* above 1.11.3) with aws_xray_sdk importable calls patch_all exactly     *)
(* once, with re-patching allowed, and logs no warning.                   *)
C6_PatchesOnceWhenChecksPass ==
    (Called /\ BotocoreCompatible /\ packagingPresent /\ sdkPresent) =>
        /\ last.patch
        /\ patchCalls = instrumentCalls
        /\ DoublePatch
        /\ wraps = 1
        /\ last.warning.msg = "none"
        /\ last.raised = "none"
        /\ \A i \in 1..Len(stdout) : stdout[i].lvl # WARNING

C6_Witness ==
    /\ Called
    /\ botocoreVersion = JoinDots(<<1, 11, 3>>)
    /\ packagingPresent
    /\ sdkPresent
    /\ last.patch
    /\ patchCalls = 1

(* C7: a second call of instrument() with the checks passing leaves the   *)
(* patched state as the first call left it (the wrappers applied once,    *)
(* never twice) and raises nothing.                                       *)
C7_SecondPatchIsNoOp ==
    [][(instrumentCalls' = instrumentCalls + 1 /\ instrumentCalls >= 1
          /\ last.patch /\ last.raised = "none")
        => (wraps' = wraps /\ wraps' = 1 /\ raised' = "none"
              /\ last' = last /\ patchCalls' = patchCalls + 1)]_vars

C7_Witness ==
    /\ instrumentCalls = 2
    /\ patchCalls = 2
    /\ wraps = 1
    /\ raised = "none"

(* C8: each import of the module calls setup() once and then instrument() *)
(* once, in that order; the first import happens before the user's code   *)
(* runs; repeated imports leave the wrappers applied at most once.        *)
C8_OnceEachInOrder ==
    /\ instrumentCalls <= setupCalls
    /\ setupCalls <= imports
    /\ setupCalls - instrumentCalls <= 1
    /\ (pc = "hook" /\ hookPos = 1) =>
          (setupCalls = imports - 1 /\ instrumentCalls = imports - 1)
    /\ (pc = "hook" /\ hookPos = 2) =>
          (setupCalls = imports /\ instrumentCalls = imports - 1)
    /\ pc = "user" => (setupCalls = imports /\ instrumentCalls = imports)
    /\ (pc = "user" \/ (pc = "exited" /\ wrapperPath = "valid")) => imports >= 1
    /\ patchCalls <= instrumentCalls
    /\ wraps <= 1

C8_Witness ==
    /\ pc = "user"
    /\ imports = 2
    /\ setupCalls = 2
    /\ instrumentCalls = 2
    /\ wraps = 1

(* C9: with the exec-wrapper path pointing at a target that does not      *)
(* exist, the process never starts the interpreter and ends with exit     *)
(* code 127.                                                              *)
C9_MissingWrapperExits127 ==
    wrapperPath = "missing" =>
        /\ pc \in {"created", "exited"}
        /\ imports = 0
        /\ pc = "exited" => exitCode = 127

C9_Witness ==
    /\ wrapperPath = "missing"
    /\ pc = "exited"
    /\ exitCode = 127

(* C10: calls of instrument() in one deployment that differ only in the   *)
(* verbosity variable have the same outcome (patch_all called or not, the *)
(* warning logged, the exception raised); debug records are written only  *)
(* at level DEBUG; after setup() the level is DEBUG exactly when the      *)
(* variable equals "DEBUG", and INFO otherwise.                           *)
C10_VerbosityKeepsControlFlow ==
    /\ \A r1, r2 \in runs :
          /\ r1.patch = r2.patch
          /\ r1.warning = r2.warning
          /\ r1.raised = r2.raised
    /\ \A i \in 1..Len(stdout) : stdout[i].lvl = DEBUG => envLevel = "DEBUG"
    /\ (Called /\ last.warning.msg # "none") =>
          \E i \in 1..Len(stdout) : stdout[i] = last.warning
    /\ (pc = "user" \/ (pc = "hook" /\ hookPos > 1)) =>
          level = (IF envLevel = "DEBUG" THEN DEBUG ELSE INFO)

C10_Witness ==
    /\ \E r1, r2 \in runs :
          /\ r1.verbosity = "DEBUG"
          /\ r2.verbosity = "debug"
          /\ r1.warning.msg = VersionMsg
    /\ envLevel = "DEBUG"
    /\ \E i \in 1..Len(stdout) : stdout[i].lvl = DEBUG
    /\ \E i \in 1..Len(stdout) : stdout[i].lvl = WARNING

=============================================================================
